---- MODULE Spec2Model ----
(***************************************************************************)
(* regen: a generator of companion code for C++ enum classes               *)
(* (src/regen/regen.py).                                                   *)
(*                                                                         *)
(* Text is modelled at two granularities.  The marker line read by         *)
(* read_output_file_name is a sequence of characters (one-character        *)
(* strings), because the code slices it by character.  Every other text    *)
(* (identifiers, rendered code, file contents) is a sequence of tokens,    *)
(* where a token is an identifier or a literal fragment of a template;     *)
(* string concatenation is sequence concatenation.                         *)
(*                                                                         *)
(* Two specifications are given:                                           *)
(*   Spec        the two commands init_cmd and gen_cmd, step by step,      *)
(*               against a file system;                                    *)
(*   SpecRender  the extraction and rendering functions applied to         *)
(*               syntax trees drawn from bounded families.                 *)
(***************************************************************************)
EXTENDS Integers, Sequences, FiniteSets

VARIABLES
  \* SpecRender: the tree given to extract_enums, what has been computed so
  \* far, and the results
  r_tree, r_done, r_ext, r_q, r_strofs, r_wstrofs, r_fmt,
  \* Spec, the environment: the first line of the input file, the parse tree
  \* of its text, and the content of every path an output file may have
  top_line, parse_tree, fs,
  \* Spec, the running command: which one, where it stands, its locals
  cmd, pc, output_file, parsed, enums, fmt_requirement, strof_l, wstrof_l,
  templ, out_text,
  \* Spec, what the command did: how it ended, its return value, whether it
  \* printed the message, how often it opened a file for writing
  status, ret, printed, opens,
  \* Spec, history: the file system when the command started, and the
  \* output file's content at the end of every gen_cmd run on an input
  \* that holds a declaration
  pre_fs, gen_results

rvars == <<r_tree, r_done, r_ext, r_q, r_strofs, r_wstrofs, r_fmt>>

envvars == <<top_line, parse_tree>>

locals == <<output_file, parsed, enums, fmt_requirement, strof_l, wstrof_l, templ, out_text>>

svars == <<envvars, fs, cmd, pc, locals, status, ret, printed, opens, pre_fs, gen_results>>

vars == <<rvars, svars>>

(***************************************************************************)
(* Bounds of the tree families of SpecRender.                              *)
(***************************************************************************)
MaxDepth == 2

MaxMembers == 2

MaxEnums == 2

(***************************************************************************)
(* Generic sequence helpers.                                               *)
(***************************************************************************)
RECURSIVE SeqsUpTo(_, _)
SeqsUpTo(S, n) ==
  IF n = 0 THEN {<<>>}
  ELSE LET shorter == SeqsUpTo(S, n - 1)
       IN shorter \cup {Append(s, x) : s \in {t \in shorter : Len(t) = n - 1}, x \in S}

\* reversed(xs)
Reversed(xs) == [i \in 1..Len(xs) |-> xs[Len(xs) + 1 - i]]

\* sep.join(texts): texts is a sequence of token sequences
RECURSIVE Join(_, _)
Join(texts, sep) ==
  IF Len(texts) = 0 THEN <<>>
  ELSE IF Len(texts) = 1 THEN texts[1]
  ELSE texts[1] \o sep \o Join(Tail(texts), sep)

(***************************************************************************)
(* str.format: a template is a sequence of pieces, each a literal fragment *)
(* or a named replacement field; formatting replaces every field by the    *)
(* keyword argument of that name and fails (KeyError) on any other field.  *)
(***************************************************************************)
Lit(s) == [lit |-> s, field |-> ""]

Fld(f) == [lit |-> "", field |-> f]

FormatOK(tpl, kw) ==
  \A i \in 1..Len(tpl) : tpl[i].field = "" \/ tpl[i].field \in DOMAIN kw

RECURSIVE Format(_, _)
Format(tpl, kw) ==
  IF Len(tpl) = 0 THEN <<>>
  ELSE (IF tpl[1].field = "" THEN <<tpl[1].lit>> ELSE kw[tpl[1].field])
       \o Format(Tail(tpl), kw)

(***************************************************************************)
(* Syntax trees (the tree-sitter nodes regen.py reads).  A tree is a       *)
(* sequence of nodes in source order; node 1 is the root.  Of a node the   *)
(* code reads: type, parent (0 models None), the "name" field (the         *)
(* identifier text; "" models a missing field, i.e. None), and for an      *)
(* enumerator list its children (type and, for an enumerator, the text of  *)
(* its first child).                                                       *)
(***************************************************************************)
Node(t, p, n, cls, ch) ==
  [type |-> t, parent |-> p, name |-> n, class |-> cls, children |-> ch]

Child(t, n) == [type |-> t, name |-> n]

\* The record built per match (dataclass CppEnum); name nodes are modelled by
\* their text.
CppEnum(name, namespaces, value_names) ==
  [name |-> name, namespaces |-> namespaces, value_names |-> value_names]

\* get_outer_ns_nodes, the while loop from the state (parent, ns_nodes):
\* ok = FALSE models the AssertionError of `assert ns_name`.
RECURSIVE OuterNsWalk(_, _, _)
OuterNsWalk(tree, parent, ns_nodes) ==
  IF parent = 0 THEN [ok |-> TRUE, nodes |-> ns_nodes]
  ELSE IF tree[parent].type = "namespace_definition"
       THEN IF tree[parent].name = ""
            THEN [ok |-> FALSE, nodes |-> ns_nodes]
            ELSE OuterNsWalk(tree, tree[parent].parent,
                             Append(ns_nodes, tree[parent].name))
       ELSE OuterNsWalk(tree, tree[parent].parent, ns_nodes)

get_outer_ns_nodes(tree, def_node) ==
  OuterNsWalk(tree, tree[def_node].parent, <<>>)

\* get_enum_value_name_nodes: the first child of every "enumerator" child.
RECURSIVE EnumeratorNames(_)
EnumeratorNames(children) ==
  IF Len(children) = 0 THEN <<>>
  ELSE (IF children[1].type = "enumerator" THEN <<children[1].name>> ELSE <<>>)
       \o EnumeratorNames(Tail(children))

get_enum_value_name_nodes(body_children) == EnumeratorNames(body_children)

\* The query trigger_enums.scm: the class-style enum definitions, in source
\* order.
RECURSIVE MatchesFrom(_, _)
MatchesFrom(tree, i) ==
  IF i > Len(tree) THEN <<>>
  ELSE (IF tree[i].type = "enum_specifier" /\ tree[i].class THEN <<i>> ELSE <<>>)
       \o MatchesFrom(tree, i + 1)

Matches(tree) == MatchesFrom(tree, 1)

\* extract_enums: one record per match, in match order; it fails when the
\* scope walk of some match fails.
extract_enums(tree) ==
  LET ms == Matches(tree)
      walks == [k \in 1..Len(ms) |-> get_outer_ns_nodes(tree, ms[k])]
      ok == \A k \in 1..Len(ms) : walks[k].ok
  IN [ok |-> ok,
      enums |-> IF ok
                THEN [k \in 1..Len(ms) |->
                       CppEnum(tree[ms[k]].name, walks[k].nodes,
                               get_enum_value_name_nodes(tree[ms[k]].children))]
                ELSE <<>>]

(***************************************************************************)
(* Build Strings.  The format strings of regen.py, as templates.           *)
(***************************************************************************)
STROF_OUTER ==
  << Lit("constexpr std::string_view stringof(const "), Fld("q_type"),
     Lit("& v) noexcept {\n  switch(v) {\n"), Fld("case_l"), Lit("\n  };\n}\n") >>

STROF_INNER ==
  << Lit("    case "), Fld("q_type"), Lit("::"), Fld("v_name"), Lit(": return \""),
     Fld("uq_type"), Lit("::"), Fld("v_name"), Lit("\";") >>

WSTROF_OUTER ==
  << Lit("constexpr std::wstring_view wstringof(const "), Fld("q_type"),
     Lit("& v) noexcept {\n  switch(v) {\n"), Fld("case_l"), Lit("\n  };\n}\n") >>

WSTROF_INNER ==
  << Lit("    case "), Fld("q_type"), Lit("::"), Fld("v_name"), Lit(": return L\""),
     Fld("uq_type"), Lit("::"), Fld("v_name"), Lit("\";") >>

FMT_REQUIREMENT == << Lit("OneOf<T, "), Fld("q_type_l"), Lit(">") >>

\* The loop of build_q_type over the namespaces still to be appended.
RECURSIVE QualifyLoop(_, _)
QualifyLoop(nss, q_type) ==
  IF Len(nss) = 0 THEN q_type
  ELSE QualifyLoop(Tail(nss), q_type \o <<"::", Head(nss)>>)

\* build_q_type without reversed(): scopes appended innermost first
build_q_type_unreversed(enum) ==
  QualifyLoop(enum.namespaces, <<>>) \o <<"::", enum.name>>

build_q_type(enum) ==
  QualifyLoop(Reversed(enum.namespaces), <<>>) \o <<"::", enum.name>>

\* build_strof passing the qualified type as uq_type
build_strof_qualified_literal(enum) ==
  LET q_type == QualifyLoop(Reversed(enum.namespaces), <<>>) \o <<"::", enum.name>>
      build_case(v) ==
        Format(STROF_INNER, [q_type |-> q_type, v_name |-> <<v>>, uq_type |-> q_type])
      cases == [i \in 1..Len(enum.value_names) |-> build_case(enum.value_names[i])]
      case_l == Join(cases, <<"\n">>)
  IN Format(STROF_OUTER, [q_type |-> q_type, case_l |-> case_l])

build_strof(enum) ==
  LET q_type == build_q_type(enum)
      uq_type == <<enum.name>>
      build_case(v) ==
        Format(STROF_INNER, [q_type |-> q_type, v_name |-> <<v>>, uq_type |-> uq_type])
      cases == [i \in 1..Len(enum.value_names) |-> build_case(enum.value_names[i])]
      case_l == Join(cases, <<"\n">>)
  IN Format(STROF_OUTER, [q_type |-> q_type, case_l |-> case_l])

\* build_wstrof rendering each distinct member once
RECURSIVE Dedup(_)
Dedup(xs) ==
  IF Len(xs) = 0 THEN <<>>
  ELSE LET front == Dedup(SubSeq(xs, 1, Len(xs) - 1))
           last == xs[Len(xs)]
       IN IF \E i \in 1..Len(front) : front[i] = last THEN front ELSE Append(front, last)

build_wstrof_dedup(enum) ==
  LET q_type == QualifyLoop(Reversed(enum.namespaces), <<>>) \o <<"::", enum.name>>
      uq_type == <<enum.name>>
      build_case(v) ==
        Format(WSTROF_INNER, [q_type |-> q_type, v_name |-> <<v>>, uq_type |-> uq_type])
      cases == [i \in 1..Len(Dedup(enum.value_names)) |-> build_case(Dedup(enum.value_names)[i])]
      case_l == Join(cases, <<"\n">>)
  IN Format(WSTROF_OUTER, [q_type |-> q_type, case_l |-> case_l])

build_wstrof(enum) ==
  LET q_type == build_q_type(enum)
      uq_type == <<enum.name>>
      build_case(v) ==
        Format(WSTROF_INNER, [q_type |-> q_type, v_name |-> <<v>>, uq_type |-> uq_type])
      cases == [i \in 1..Len(enum.value_names) |-> build_case(enum.value_names[i])]
      case_l == Join(cases, <<"\n">>)
  IN Format(WSTROF_OUTER, [q_type |-> q_type, case_l |-> case_l])

build_fmt_requirement(es) ==
  LET q_types == [i \in 1..Len(es) |-> build_q_type(es[i])]
      q_type_l == Join(q_types, <<", ">>)
  IN Format(FMT_REQUIREMENT, [q_type_l |-> q_type_l])

(***************************************************************************)
(* Input trees.  A file is described by its declarations in source order;  *)
(* a declaration is an enum definition (name, class-style or not, the      *)
(* children of its enumerator list) inside a chain of ancestors, given     *)
(* outermost first.  name = "" describes a chain that holds no enum.       *)
(***************************************************************************)
Root == Node("translation_unit", 0, "", FALSE, <<>>)

Anc(t, n) == [type |-> t, name |-> n]

Decl(chain, name, cls, body) ==
  [chain |-> chain, name |-> name, class |-> cls, body |-> body]

AddDecl(tree, d) ==
  LET base == Len(tree)
      n == Len(d.chain)
      chainNodes == [k \in 1..n |->
                      Node(d.chain[k].type, IF k = 1 THEN 1 ELSE base + k - 1,
                           d.chain[k].name, FALSE, <<>>)]
      enumNode == Node("enum_specifier", IF n = 0 THEN 1 ELSE base + n,
                       d.name, d.class, d.body)
  IN tree \o chainNodes \o (IF d.name = "" THEN <<>> ELSE <<enumNode>>)

RECURSIVE AddDecls(_, _)
AddDecls(tree, ds) ==
  IF Len(ds) = 0 THEN tree ELSE AddDecls(AddDecl(tree, Head(ds)), Tail(ds))

TreeOf(ds) == AddDecls(<<Root>>, ds)

\* Ancestors: two named namespaces, an anonymous namespace, and a class that
\* bears the name of one of the namespaces.
Ancestors ==
  { Anc("namespace_definition", "ns"), Anc("namespace_definition", "inner"),
    Anc("namespace_definition", ""), Anc("class_specifier", "ns") }

BodyKids ==
  { Child("enumerator", "Red"), Child("enumerator", "Green"), Child("comment", "") }

\* one enum class under every ancestor chain
ChainFamily ==
  { TreeOf(<<Decl(c, "Color", TRUE, <<Child("enumerator", "Red")>>)>>) :
      c \in SeqsUpTo(Ancestors, MaxDepth) }

\* one enum class with every enumerator list
BodyFamily ==
  { TreeOf(<<Decl(c, "Color", TRUE, b)>>) :
      c \in { <<>>, <<Anc("namespace_definition", "ns"),
                      Anc("namespace_definition", "inner")>> },
      b \in SeqsUpTo(BodyKids, MaxMembers) }

MultiDecls ==
  { Decl(c, n, TRUE, <<Child("enumerator", "Red")>>) :
      c \in { <<>>, <<Anc("namespace_definition", "ns")>>,
              <<Anc("namespace_definition", "inner")>>,
              <<Anc("class_specifier", "ns")>> },
      n \in {"Color", "Shade"} }
  \cup { Decl(<<>>, "Plain", FALSE, <<Child("enumerator", "Red")>>) }

\* several declarations in one file, none of them defined twice
MultiFamily ==
  { TreeOf(ds) : ds \in { l \in SeqsUpTo(MultiDecls, MaxEnums) :
                            \A i, j \in 1..Len(l) : i # j => l[i] # l[j] } }

RenderTrees == ChainFamily \cup BodyFamily \cup MultiFamily

(***************************************************************************)
(* Reading rendered text back: the case lines of a conversion function,    *)
(* and the label and literal of a case line.                               *)
(***************************************************************************)
RECURSIVE SplitAcc(_, _, _, _)
SplitAcc(text, sep, cur, acc) ==
  IF Len(text) = 0 THEN Append(acc, cur)
  ELSE IF Head(text) = sep THEN SplitAcc(Tail(text), sep, <<>>, Append(acc, cur))
  ELSE SplitAcc(Tail(text), sep, Append(cur, Head(text)), acc)

SplitOn(text, sep) == SplitAcc(text, sep, <<>>, <<>>)

\* first position of tok in text, 0 when absent
IndexOf(text, tok) ==
  IF \E i \in 1..Len(text) : text[i] = tok
  THEN CHOOSE i \in 1..Len(text) : text[i] = tok /\ \A j \in 1..(i - 1) : text[j] # tok
  ELSE 0

SwitchOpen == "& v) noexcept {\n  switch(v) {\n"

SwitchClose == "\n  };\n}\n"

\* the type the function takes: the tokens between its head and the switch
ParamType(fn) == SubSeq(fn, 2, IndexOf(fn, SwitchOpen) - 1)

CaseLines(fn) ==
  LET body == SubSeq(fn, IndexOf(fn, SwitchOpen) + 1, IndexOf(fn, SwitchClose) - 1)
  IN SelectSeq(SplitOn(body, "\n"), LAMBDA l : Len(l) > 0)

\* opener is the token that opens the returned literal
CaseLabel(line, opener) == SubSeq(line, 2, IndexOf(line, opener) - 1)

CaseLiteral(line, opener) == SubSeq(line, IndexOf(line, opener) + 1, Len(line) - 1)

NarrowRet == ": return \""

WideRet == ": return L\""

\* Ancestors, read off the tree without walking it: node a is an ancestor of n.
RECURSIVE IsAncestor(_, _, _)
IsAncestor(tree, a, n) ==
  LET p == tree[n].parent IN p # 0 /\ (p = a \/ IsAncestor(tree, a, p))

\* the names of the namespace definitions around node n, outermost first
NamespacesAround(tree, n) ==
  LET idx == SelectSeq([i \in 1..Len(tree) |-> i],
                       LAMBDA a : IsAncestor(tree, a, n)
                                  /\ tree[a].type = "namespace_definition")
  IN [k \in 1..Len(idx) |-> tree[idx[k]].name]

\* the class-style enum definitions of the tree, in source order
Discovered(tree) ==
  SelectSeq([i \in 1..Len(tree) |-> i],
            LAMBDA n : tree[n].type = "enum_specifier" /\ tree[n].class)

\* the enumerator names of the enum definition at node n, in source order
EnumeratorsOf(tree, n) ==
  LET es == SelectSeq(tree[n].children, LAMBDA c : c.type = "enumerator")
  IN [k \in 1..Len(es) |-> es[k].name]

\* the entries of an aggregate constraint "OneOf<T, e1, e2, ...>"
FmtEntries(fmt) == SplitOn(SubSeq(fmt, 2, Len(fmt) - 1), ", ")

(***************************************************************************)
(* The marker line.  read_output_file_name works on characters.            *)
(***************************************************************************)
MarkerPrefix ==
  <<"/", "/", " ", "@", "r", "e", "g", "e", "n", " ",
    "o", "u", "t", "p", "u", "t", " ">>

Whitespace == {" ", "\n", "\t", "\r"}

StartsWith(s, prefix) ==
  Len(s) >= Len(prefix) /\ SubSeq(s, 1, Len(prefix)) = prefix

\* str.rfind, as a position from 1; 0 models the result -1
RFind(s, c) ==
  IF \E i \in 1..Len(s) : s[i] = c
  THEN CHOOSE i \in 1..Len(s) : s[i] = c /\ \A j \in (i + 1)..Len(s) : s[j] # c
  ELSE 0

\* str.strip
RECURSIVE LStrip(_)
LStrip(s) ==
  IF Len(s) > 0 /\ Head(s) \in Whitespace THEN LStrip(Tail(s)) ELSE s

Strip(s) == Reversed(LStrip(Reversed(LStrip(s))))

\* read_output_file_name, after its readline and assert: the name, or the
\* empty string
read_output_file_name(line) ==
  IF StartsWith(line, MarkerPrefix) /\ Len(line) > Len(MarkerPrefix)
  THEN LET sep_last == RFind(line, " ")
       IN IF sep_last # 0 THEN Strip(SubSeq(line, sep_last, Len(line))) ELSE <<>>
  ELSE <<>>

(***************************************************************************)
(* Files.  The content of a path is absent or a text.  The input file is   *)
(* never one of the output paths.                                          *)
(***************************************************************************)
Absent == [exists |-> FALSE, text |-> <<>>]

File(text) == [exists |-> TRUE, text |-> text]

input_file == "in.h"

Paths == { <<"o">>, <<"p">> }

\* open(path, "a"): the content is kept
OpenForAppend(fsys, path) ==
  [fsys EXCEPT ![path] = File(fsys[path].text)]

\* open(path, "w"): the file exists and is empty
OpenForWrite(fsys, path) == [fsys EXCEPT ![path] = File(<<>>)]

\* file.write(text) on the file just opened
WriteText(fsys, path, text) ==
  [fsys EXCEPT ![path] = File(fsys[path].text \o text)]

\* templates/init.hpp.templ and templates/gen.hpp.templ: the stub and the
\* generated variant, with the substitution points of each
INIT_TEMPL ==
  << Lit("// stub for "), Fld("input_file"), Lit("\n") >>

GEN_TEMPL ==
  << Lit("// generated from "), Fld("input_file"), Lit("\n"), Fld("strof_l"),
     Lit("\n\n"), Fld("wstrof_l"), Lit("\n\ntemplate <typename T> requires "),
     Fld("fmt_requirement"), Lit("\n") >>

\* len(enums) < 1 never taken
NoEnums_never(es) == FALSE

\* the test of gen_cmd for the empty result
NoEnums(es) == Len(es) < 1

TopLines ==
  { <<>>,                                           \* an empty file
    <<"\n">>,                                       \* a blank first line
    <<"#", "\n">>,                                  \* some other first line
    <<" ">> \o MarkerPrefix \o <<"o", "\n">>,       \* the marker, indented
    SubSeq(MarkerPrefix, 1, 16) \o <<"\n">>,        \* the prefix less its blank
    MarkerPrefix,                                   \* the prefix, end of file
    MarkerPrefix \o <<"\n">>,                       \* the prefix, end of line
    MarkerPrefix \o <<"o", "\n">>,                  \* path o
    MarkerPrefix \o <<"o">>,                        \* path o, end of file
    MarkerPrefix \o <<"p", "\n">>,                  \* path p
    MarkerPrefix \o <<"x", " ", "p", "\n">>,        \* two words
    MarkerPrefix \o <<"o", " ", "\n">> }            \* path o and a blank

Ns(n) == Anc("namespace_definition", n)

RedGreen == <<Child("{", ""), Child("enumerator", "Red"), Child(",", ""),
              Child("enumerator", "Green"), Child("}", "")>>

RunTrees ==
  { TreeOf(<<>>),
    TreeOf(<<Decl(<<>>, "Plain", FALSE, RedGreen), Decl(<<Ns("")>>, "", FALSE, <<>>)>>),
    TreeOf(<<Decl(<<>>, "Color", TRUE, RedGreen)>>),
    TreeOf(<<Decl(<<Ns("ns"), Ns("inner")>>, "Color", TRUE, RedGreen)>>),
    TreeOf(<<Decl(<<Ns("ns")>>, "Color", TRUE, RedGreen),
             Decl(<<>>, "Shade", TRUE, <<Child("{", ""), Child("}", "")>>)>>),
    TreeOf(<<Decl(<<Ns("")>>, "Color", TRUE, RedGreen)>>) }

(***************************************************************************)
(* Spec: main dispatches to init_cmd or gen_cmd; a command runs step by    *)
(* step to its end (returned or raised); then the next command may run.    *)
(***************************************************************************)
NoLocals ==
  /\ output_file = <<>>
  /\ parsed = FALSE
  /\ enums = <<>>
  /\ fmt_requirement = <<>>
  /\ strof_l = <<>>
  /\ wstrof_l = <<>>
  /\ templ = <<>>
  /\ out_text = <<>>

RunIdle ==
  /\ top_line = <<>>
  /\ parse_tree = <<Root>>
  /\ fs = [p \in Paths |-> Absent]
  /\ cmd = "none"
  /\ pc = "idle"
  /\ NoLocals
  /\ status = "none"
  /\ ret = 0
  /\ printed = FALSE
  /\ opens = 0
  /\ pre_fs = [p \in Paths |-> Absent]
  /\ gen_results = {}

\* main: args.func(args.input_file)
Main ==
  /\ pc \in {"idle", "done"}
  /\ \E c \in {"init", "gen"} : cmd' = c
  /\ pc' = "read_marker"
  /\ output_file' = <<>>
  /\ parsed' = FALSE
  /\ enums' = <<>>
  /\ fmt_requirement' = <<>>
  /\ strof_l' = <<>>
  /\ wstrof_l' = <<>>
  /\ templ' = <<>>
  /\ out_text' = <<>>
  /\ status' = "running"
  /\ ret' = 0
  /\ printed' = FALSE
  /\ opens' = 0
  /\ pre_fs' = fs
  /\ UNCHANGED <<envvars, fs, gen_results, rvars>>

\* The results a finished gen_cmd adds to the history.
Recorded(done_fs, path) ==
  IF cmd = "gen" /\ Len(Discovered(parse_tree)) > 0 THEN {done_fs[path]} ELSE {}

\* init_cmd and gen_cmd, their first lines: read_output_file_name (readline,
\* the assert, the slicing) and the test of its result
ReadMarker ==
  /\ pc = "read_marker"
  /\ LET name == read_output_file_name(top_line)
     IN IF top_line = <<>>
        THEN /\ status' = "raised"
             /\ pc' = "done"
             /\ UNCHANGED <<output_file, ret, printed>>
        ELSE IF name = <<>>
        THEN /\ printed' = TRUE
             /\ ret' = -1
             /\ status' = "returned"
             /\ pc' = "done"
             /\ UNCHANGED output_file
        ELSE /\ output_file' = name
             /\ pc' = IF cmd = "init" THEN "init_read_templ" ELSE "parse"
             /\ UNCHANGED <<status, ret, printed>>
  /\ UNCHANGED <<envvars, fs, cmd, parsed, enums, fmt_requirement, strof_l, wstrof_l,
                 templ, out_text, opens, pre_fs, gen_results, rvars>>

\* gen_cmd opening the output file before it parses
GenParse_opens_output ==
  /\ pc = "parse"
  /\ parsed' = TRUE
  /\ fs' = OpenForWrite(fs, output_file)
  /\ opens' = opens + 1
  /\ pc' = "extract"
  /\ UNCHANGED <<envvars, cmd, output_file, enums, fmt_requirement, strof_l,
                 wstrof_l, templ, out_text, status, ret, printed, pre_fs,
                 gen_results, rvars>>

\* gen_cmd: read the input and parse it
GenParse ==
  /\ pc = "parse"
  /\ parsed' = TRUE
  /\ pc' = "extract"
  /\ UNCHANGED <<envvars, fs, cmd, output_file, enums, fmt_requirement, strof_l,
                 wstrof_l, templ, out_text, status, ret, printed, opens, pre_fs,
                 gen_results, rvars>>

\* gen_cmd: extract_enums and the test for the empty result
GenExtract ==
  /\ pc = "extract"
  /\ LET ext == extract_enums(parse_tree)
     IN IF ~ext.ok
        THEN /\ status' = "raised"
             /\ pc' = "done"
             /\ gen_results' = gen_results \cup Recorded(fs, output_file)
             /\ UNCHANGED <<enums, ret>>
        ELSE IF NoEnums(ext.enums)
        THEN /\ enums' = ext.enums
             /\ ret' = 0
             /\ status' = "returned"
             /\ pc' = "done"
             /\ UNCHANGED gen_results
        ELSE /\ enums' = ext.enums
             /\ pc' = "render"
             /\ UNCHANGED <<status, ret, gen_results>>
  /\ UNCHANGED <<envvars, fs, cmd, output_file, parsed, fmt_requirement, strof_l,
                 wstrof_l, templ, out_text, printed, opens, pre_fs, rvars>>

\* gen_cmd: the three rendered bodies (the maps are consumed by the joins)
GenRender ==
  /\ pc = "render"
  /\ fmt_requirement' = build_fmt_requirement(enums)
  /\ strof_l' = Join([i \in 1..Len(enums) |-> build_strof(enums[i])], <<"\n\n">>)
  /\ wstrof_l' = Join([i \in 1..Len(enums) |-> build_wstrof(enums[i])], <<"\n\n">>)
  /\ pc' = "read_templ"
  /\ UNCHANGED <<envvars, fs, cmd, output_file, parsed, enums, templ, out_text,
                 status, ret, printed, opens, pre_fs, gen_results, rvars>>

\* gen_cmd: read gen.hpp.templ
GenReadTempl ==
  /\ pc = "read_templ"
  /\ templ' = GEN_TEMPL
  /\ pc' = "open"
  /\ UNCHANGED <<envvars, fs, cmd, output_file, parsed, enums, fmt_requirement,
                 strof_l, wstrof_l, out_text, status, ret, printed, opens, pre_fs,
                 gen_results, rvars>>

\* gen_cmd: `with open(output_file, "w")`
GenOpen ==
  /\ pc = "open"
  /\ fs' = OpenForWrite(fs, output_file)
  /\ opens' = opens + 1
  /\ pc' = "format"
  /\ UNCHANGED <<envvars, cmd, locals, status, ret, printed, pre_fs, gen_results,
                 rvars>>

GenKw ==
  [input_file |-> <<"\"", input_file, "\"">>, strof_l |-> strof_l,
   wstrof_l |-> wstrof_l, fmt_requirement |-> fmt_requirement]

\* gen_cmd: gen_templ.format(...), the argument of file.write
GenFormat ==
  /\ pc = "format"
  /\ IF FormatOK(templ, GenKw)
     THEN /\ out_text' = Format(templ, GenKw)
          /\ pc' = "write"
          /\ UNCHANGED <<status, gen_results>>
     ELSE /\ status' = "raised"
          /\ pc' = "done"
          /\ gen_results' = gen_results \cup Recorded(fs, output_file)
          /\ UNCHANGED out_text
  /\ UNCHANGED <<envvars, fs, cmd, output_file, parsed, enums, fmt_requirement,
                 strof_l, wstrof_l, templ, ret, printed, opens, pre_fs, rvars>>

\* gen_cmd: file.write, the end of the with block, return 0
GenWrite ==
  /\ pc = "write"
  /\ fs' = WriteText(fs, output_file, out_text)
  /\ ret' = 0
  /\ status' = "returned"
  /\ pc' = "done"
  /\ gen_results' = gen_results \cup Recorded(fs', output_file)
  /\ UNCHANGED <<envvars, cmd, locals, printed, opens, pre_fs, rvars>>

\* init_cmd: read init.hpp.templ
InitReadTempl ==
  /\ pc = "init_read_templ"
  /\ templ' = INIT_TEMPL
  /\ pc' = "init_open"
  /\ UNCHANGED <<envvars, fs, cmd, output_file, parsed, enums, fmt_requirement,
                 strof_l, wstrof_l, out_text, status, ret, printed, opens, pre_fs,
                 gen_results, rvars>>

\* init_cmd: `with open(output_file, "w")`
InitOpen ==
  /\ pc = "init_open"
  /\ fs' = OpenForWrite(fs, output_file)
  /\ opens' = opens + 1
  /\ pc' = "init_format"
  /\ UNCHANGED <<envvars, cmd, locals, status, ret, printed, pre_fs, gen_results,
                 rvars>>

InitKw == [input_file |-> <<"\"", input_file, "\"">>]

\* init_cmd: init_templ.format(...), the argument of file.write
InitFormat ==
  /\ pc = "init_format"
  /\ IF FormatOK(templ, InitKw)
     THEN /\ out_text' = Format(templ, InitKw)
          /\ pc' = "init_write"
          /\ UNCHANGED status
     ELSE /\ status' = "raised"
          /\ pc' = "done"
          /\ UNCHANGED out_text
  /\ UNCHANGED <<envvars, fs, cmd, output_file, parsed, enums, fmt_requirement,
                 strof_l, wstrof_l, templ, ret, printed, opens, pre_fs,
                 gen_results, rvars>>

\* init_cmd: file.write, the end of the with block, return 0
InitWrite ==
  /\ pc = "init_write"
  /\ fs' = WriteText(fs, output_file, out_text)
  /\ ret' = 0
  /\ status' = "returned"
  /\ pc' = "done"
  /\ UNCHANGED <<envvars, cmd, locals, printed, opens, pre_fs, gen_results, rvars>>

(***************************************************************************)
(* SpecRender: extract_enums applied to a tree, then build_q_type,         *)
(* build_strof, build_wstrof (per record) and build_fmt_requirement (on    *)
(* the list).  The builders are pure, so they are applied in any order.    *)
(***************************************************************************)
RenderIdle ==
  /\ r_tree = <<Root>>
  /\ r_done = {}
  /\ r_ext = [ok |-> TRUE, enums |-> <<>>]
  /\ r_q = <<>>
  /\ r_strofs = <<>>
  /\ r_wstrofs = <<>>
  /\ r_fmt = <<>>

InitRender ==
  /\ RunIdle
  /\ r_tree \in RenderTrees
  /\ r_done = {}
  /\ r_ext = [ok |-> TRUE, enums |-> <<>>]
  /\ r_q = <<>>
  /\ r_strofs = <<>>
  /\ r_wstrofs = <<>>
  /\ r_fmt = <<>>

ApplyExtract ==
  /\ "extract" \notin r_done
  /\ r_ext' = extract_enums(r_tree)
  /\ r_done' = r_done \cup {"extract"}
  /\ UNCHANGED <<r_tree, r_q, r_strofs, r_wstrofs, r_fmt>>
  /\ UNCHANGED svars

Extracted == "extract" \in r_done /\ r_ext.ok

ApplyQType ==
  /\ Extracted
  /\ "q_type" \notin r_done
  /\ r_q' = [i \in 1..Len(r_ext.enums) |-> build_q_type(r_ext.enums[i])]
  /\ r_done' = r_done \cup {"q_type"}
  /\ UNCHANGED <<r_tree, r_ext, r_strofs, r_wstrofs, r_fmt>>
  /\ UNCHANGED svars

ApplyStrof ==
  /\ Extracted
  /\ "strof" \notin r_done
  /\ r_strofs' = [i \in 1..Len(r_ext.enums) |-> build_strof(r_ext.enums[i])]
  /\ r_done' = r_done \cup {"strof"}
  /\ UNCHANGED <<r_tree, r_ext, r_q, r_wstrofs, r_fmt>>
  /\ UNCHANGED svars

ApplyWstrof ==
  /\ Extracted
  /\ "wstrof" \notin r_done
  /\ r_wstrofs' = [i \in 1..Len(r_ext.enums) |-> build_wstrof(r_ext.enums[i])]
  /\ r_done' = r_done \cup {"wstrof"}
  /\ UNCHANGED <<r_tree, r_ext, r_q, r_strofs, r_fmt>>
  /\ UNCHANGED svars

ApplyFmtRequirement ==
  /\ Extracted
  /\ "fmt" \notin r_done
  /\ r_fmt' = build_fmt_requirement(r_ext.enums)
  /\ r_done' = r_done \cup {"fmt"}
  /\ UNCHANGED <<r_tree, r_ext, r_q, r_strofs, r_wstrofs>>
  /\ UNCHANGED svars

NextRender ==
  \/ ApplyExtract
  \/ ApplyQType
  \/ ApplyStrof
  \/ ApplyWstrof
  \/ ApplyFmtRequirement

SpecRender == InitRender /\ [][NextRender]_vars

Init ==
  /\ RenderIdle
  /\ top_line \in TopLines
  /\ parse_tree \in RunTrees
  /\ fs \in [Paths -> {Absent, File(<<"old">>)}]
  /\ cmd = "none"
  /\ pc = "idle"
  /\ NoLocals
  /\ status = "none"
  /\ ret = 0
  /\ printed = FALSE
  /\ opens = 0
  /\ pre_fs = fs
  /\ gen_results = {}

Next ==
  \/ Main
  \/ ReadMarker
  \/ GenParse
  \/ GenExtract
  \/ GenRender
  \/ GenReadTempl
  \/ GenOpen
  \/ GenFormat
  \/ GenWrite
  \/ InitReadTempl
  \/ InitOpen
  \/ InitFormat
  \/ InitWrite

Spec == Init /\ [][Next]_vars


(***************************************************************************)
(* C3: for a record with enclosing scopes [s1, ..., sn] (innermost first)  *)
(* and name N, build_q_type returns :: sn :: ... :: s1 :: N, each scope    *)
(* preceded by the separator, outermost first; with n = 0 it is :: N.      *)
(***************************************************************************)
C3_QualifiedNameOutermostFirst ==
  "q_type" \in r_done =>
    \A i \in 1..Len(r_ext.enums) :
      LET e == r_ext.enums[i]
          n == Len(e.namespaces)
          q == r_q[i]
      IN /\ Len(q) = 2 * (n + 1)
         /\ \A k \in 1..(n + 1) : q[2 * k - 1] = "::"
         /\ \A k \in 1..n : q[2 * k] = e.namespaces[n + 1 - k]
         /\ q[2 * n + 2] = e.name

\* scopes [inner, ns] qualified as ::ns::inner::Color
C3_Witness ==
  /\ "q_type" \in r_done
  /\ \E i \in 1..Len(r_ext.enums) :
       /\ r_ext.enums[i].namespaces = <<"inner", "ns">>
       /\ r_q[i] = <<"::", "ns", "::", "inner", "::", "Color">>

(***************************************************************************)
(* C4: every case line of build_strof and of build_wstrof has the          *)
(* qualified type in its label (q_type::M) and the unqualified type in its *)
(* literal (Name::M): the literal is exactly the three parts Name, ::, M,  *)
(* with no leading separator and no scope qualification, whatever the      *)
(* record's scopes.                                                        *)
(***************************************************************************)
CaseLineShape(e, line, m, opener) ==
  /\ CaseLabel(line, opener) = build_q_type(e) \o <<"::", m>>
  /\ CaseLiteral(line, opener) = <<e.name, "::", m>>
  /\ CaseLiteral(line, opener)[1] # "::"

C4_LiteralUnqualifiedLabelQualified ==
  /\ "strof" \in r_done =>
       \A i \in 1..Len(r_ext.enums) :
         LET lines == CaseLines(r_strofs[i])
         IN \A k \in 1..Len(lines) :
              k <= Len(r_ext.enums[i].value_names)
              /\ CaseLineShape(r_ext.enums[i], lines[k],
                               r_ext.enums[i].value_names[k], NarrowRet)
  /\ "wstrof" \in r_done =>
       \A i \in 1..Len(r_ext.enums) :
         LET lines == CaseLines(r_wstrofs[i])
         IN \A k \in 1..Len(lines) :
              k <= Len(r_ext.enums[i].value_names)
              /\ CaseLineShape(r_ext.enums[i], lines[k],
                               r_ext.enums[i].value_names[k], WideRet)

\* member Red of ns::inner::Color rendered in both functions
C4_Witness ==
  /\ {"strof", "wstrof"} \subseteq r_done
  /\ \E i \in 1..Len(r_ext.enums) :
       /\ r_ext.enums[i].namespaces = <<"inner", "ns">>
       /\ Len(CaseLines(r_strofs[i])) > 0
       /\ CaseLiteral(CaseLines(r_strofs[i])[1], NarrowRet) = <<"Color", "::", "Red">>
       /\ CaseLiteral(CaseLines(r_wstrofs[i])[1], WideRet) = <<"Color", "::", "Red">>

(***************************************************************************)
(* C5: the aggregate constraint is OneOf<T, ...> with one entry per        *)
(* discovered declaration, in discovery order, and no two entries equal,   *)
(* also when two declarations share an unqualified name.                   *)
(***************************************************************************)
C5_OneDistinctEntryPerDeclaration ==
  ("fmt" \in r_done /\ Len(r_ext.enums) > 0) =>
    LET es == FmtEntries(r_fmt)
        ds == Discovered(r_tree)
    IN /\ r_fmt[1] = "OneOf<T, " /\ r_fmt[Len(r_fmt)] = ">"
       /\ Len(es) = Len(ds)
       /\ \A k \in 1..Len(es) : es[k][Len(es[k])] = r_tree[ds[k]].name
       /\ \A k, l \in 1..Len(es) : k # l => es[k] # es[l]

(***************************************************************************)
(* C6: the body rendered by build_strof and by build_wstrof holds exactly  *)
(* one case line per member, in members order, duplicates kept; with zero  *)
(* members the function is still rendered, with no case line.              *)
(***************************************************************************)
RenderedFor(fn, head, opener, e, members) ==
  LET lines == CaseLines(fn)
  IN /\ fn[1] = head
     /\ fn[Len(fn)] = SwitchClose
     /\ ParamType(fn) = build_q_type(e)
     /\ Len(lines) = Len(members)
     /\ \A k \in 1..Len(lines) :
          CaseLiteral(lines[k], opener)[Len(CaseLiteral(lines[k], opener))] = members[k]

C6_OneCasePerMemberInOrder ==
  /\ "strof" \in r_done =>
       \A i \in 1..Len(r_ext.enums) :
         RenderedFor(r_strofs[i], "constexpr std::string_view stringof(const ",
                     NarrowRet, r_ext.enums[i],
                     EnumeratorsOf(r_tree, Discovered(r_tree)[i]))
  /\ "wstrof" \in r_done =>
       \A i \in 1..Len(r_ext.enums) :
         RenderedFor(r_wstrofs[i], "constexpr std::wstring_view wstringof(const ",
                     WideRet, r_ext.enums[i],
                     EnumeratorsOf(r_tree, Discovered(r_tree)[i]))

\* a member given twice rendered as two case lines, in both functions
C6_Witness ==
  /\ {"strof", "wstrof"} \subseteq r_done
  /\ Len(r_ext.enums) = 1
  /\ r_ext.enums[1].value_names = <<"Red", "Red">>
  /\ Len(CaseLines(r_strofs[1])) = 2
  /\ Len(CaseLines(r_wstrofs[1])) = 2

(***************************************************************************)
(* C10: get_outer_ns_nodes never fails and returns the names of exactly    *)
(* the namespace definitions among the ancestors, innermost first (empty   *)
(* when there is none).                                                    *)
(***************************************************************************)
C10_ResolverNeverFails ==
  "extract" \in r_done =>
    /\ r_ext.ok
    /\ \A i \in 1..Len(r_ext.enums) :
         r_ext.enums[i].namespaces
           = Reversed(NamespacesAround(r_tree, Discovered(r_tree)[i]))

(***************************************************************************)
(* The marker line as the documentation states it: the line begins with    *)
(* the marker prefix and a path follows, up to the end of the line.        *)
(***************************************************************************)
LineBody(line) ==
  IF Len(line) > 0 /\ line[Len(line)] = "\n" THEN SubSeq(line, 1, Len(line) - 1)
  ELSE line

AfterPrefix(line) ==
  SubSeq(LineBody(line), Len(MarkerPrefix) + 1, Len(LineBody(line)))

\* a valid marker line: the prefix and one path free of blanks
ValidMarker(line) ==
  /\ StartsWith(line, MarkerPrefix)
  /\ Len(AfterPrefix(line)) > 0
  /\ \A i \in 1..Len(AfterPrefix(line)) : AfterPrefix(line)[i] \notin Whitespace

DeclaredPath(line) == AfterPrefix(line)

\* no marker: another first line, the prefix with nothing after it, or no
\* first line at all
NoMarker(line) ==
  ~StartsWith(line, MarkerPrefix) \/ Len(AfterPrefix(line)) = 0

\* the stub as init_cmd writes it for the input file
StubText == <<"// stub for ", "\"", "in.h", "\"", "\n">>

(***************************************************************************)
(* C1: with a valid marker line and no enum-class declaration found,       *)
(* gen_cmd returns 0 and never opens or writes the output path: every      *)
(* path's content stays what it was when the run started, absent included. *)
(***************************************************************************)
C1_NoDeclarationsNoWrite ==
  (cmd = "gen" /\ ValidMarker(top_line) /\ Len(Discovered(parse_tree)) = 0) =>
    /\ fs = pre_fs
    /\ opens = 0
    /\ status # "raised"
    /\ pc = "done" => (status = "returned" /\ ret = 0 /\ ~printed)

\* gen_cmd has parsed a file without declarations and returned, the old
\* output still in place
C1_Witness ==
  /\ cmd = "gen" /\ pc = "done" /\ parsed
  /\ ValidMarker(top_line)
  /\ Len(Discovered(parse_tree)) = 0
  /\ fs[DeclaredPath(top_line)] = File(<<"old">>)

(***************************************************************************)
(* C2: when the first line is not the marker prefix followed by a path     *)
(* (another first line, the prefix with nothing after it, an empty file),  *)
(* init_cmd and gen_cmd print the message and return -1, raise nothing,    *)
(* and write no file.                                                      *)
(***************************************************************************)
C2_MissingMarkerIsConfigurationError ==
  (pc = "done" /\ NoMarker(top_line)) =>
    /\ status = "returned"
    /\ ret = -1
    /\ printed
    /\ opens = 0
    /\ fs = pre_fs

(***************************************************************************)
(* C7 as stated: gen_cmd opens the output file at most once and only after *)
(* every text that will be written to it has been produced, so that a      *)
(* failure at any step leaves the output file as it was.                   *)
(***************************************************************************)
C7_OpenedAfterAllTextProduced ==
  cmd = "gen" =>
    /\ opens <= 1
    /\ opens > 0 => Len(out_text) > 0
    /\ status = "raised" => fs = pre_fs

(***************************************************************************)
(* C7, amended: the steps of gen_cmd occur in the order read marker,       *)
(* parse, extract, render, read template, open, substitute, write; the     *)
(* output file is opened at most once and only after the rendered bodies   *)
(* and the template are there, the substitution into the template taking   *)
(* place after the open; up to the open no file changes, so a failure at   *)
(* the marker, at parsing, extraction, rendering or the template read      *)
(* leaves the output file as it was.                                       *)
(***************************************************************************)
C7_OpenedAfterRenderAndTemplateRead ==
  cmd = "gen" =>
    /\ opens <= 1
    /\ parsed => Len(output_file) > 0
    /\ Len(enums) > 0 => parsed
    /\ Len(strof_l) > 0 => (Len(enums) > 0 /\ Len(wstrof_l) > 0 /\ Len(fmt_requirement) > 0)
    /\ Len(templ) > 0 => Len(strof_l) > 0
    /\ opens > 0 => templ = GEN_TEMPL
    /\ Len(out_text) > 0 => opens > 0
    /\ opens = 0 => fs = pre_fs
    /\ status = "raised" => (opens = 0 /\ fs = pre_fs)

\* gen_cmd failed in the extraction, after parsing, and the old output is
\* still in place
C7_Witness ==
  /\ cmd = "gen" /\ pc = "done" /\ status = "raised" /\ parsed
  /\ fs[output_file] = File(<<"old">>)

(***************************************************************************)
(* C8: with a valid marker line init_cmd never parses the input, returns   *)
(* 0 and leaves exactly the stub at the declared output path, whatever the *)
(* declarations of the file and whatever the path held before.             *)
(***************************************************************************)
C8_InitWritesStub ==
  (cmd = "init" /\ ValidMarker(top_line)) =>
    /\ ~parsed
    /\ status # "raised"
    /\ pc = "done" =>
         /\ status = "returned" /\ ret = 0
         /\ fs[DeclaredPath(top_line)] = File(StubText)
         /\ \A p \in Paths \ {DeclaredPath(top_line)} : fs[p] = pre_fs[p]

\* init_cmd has replaced old output by the stub, for a file with no
\* declarations
C8_Witness ==
  /\ cmd = "init" /\ pc = "done"
  /\ ValidMarker(top_line)
  /\ Len(Discovered(parse_tree)) = 0
  /\ pre_fs[DeclaredPath(top_line)] = File(<<"old">>)
  /\ fs[DeclaredPath(top_line)] = File(StubText)

(***************************************************************************)
(* C9: for an input with at least one declaration the output file after    *)
(* gen_cmd depends on the input and the template alone: every run on the   *)
(* same input leaves the same content, whatever the file held before.      *)
(***************************************************************************)
C9_OutputDependsOnInputOnly == Cardinality(gen_results) <= 1

====
